---- MODULE Spec2Model ----
(***************************************************************************)
(* State-machine model of the UrduPDF batch pipeline (src/app.py): the     *)
(* session state, the list callbacks (upload / move / remove / clear) and  *)
(* the processing run started by a process button, one step per stage of   *)
(* the per-file loop (extract, transform, append) followed by the save of  *)
(* the master document.  The calls made to backend.* are recorded in the   *)
(* history variable `calls`.  The page generator extract_pdf_content of    *)
(* src/backend.py, which the app does not call, is modelled on its own     *)
(* (SpecAll starts either the app or the generator).                       *)
(***************************************************************************)
EXTENDS Integers, Sequences, FiniteSets, TLC

(* ------------------------------ bounds -------------------------------- *)

\* Longest file list the model builds.
MaxFiles == 2

\* Most files handed over by one change of the uploader widget.
MaxUpload == 2

\* Names of the files a user may upload.
FileNames == {"a.pdf", "b.pdf", "c.pdf"}

(* ------------------------------ values -------------------------------- *)
\* Python values the pipeline handles.  A string is a sequence of tokens:
\* " " is whitespace, "Error:" the error prefix, "w" any other word.

Str(s) == [tag |-> "str", val |-> s]

None == [tag |-> "none", val |-> <<>>]

Raised == [tag |-> "raise", val |-> <<>>]

PyTrue == [tag |-> "true", val |-> <<>>]

PyFalse == [tag |-> "false", val |-> <<>>]

Unbound == [tag |-> "unbound", val |-> <<>>]

\* str.strip(): drop leading and trailing whitespace.
RECURSIVE LStrip(_)
LStrip(s) == IF s # <<>> /\ Head(s) = " " THEN LStrip(Tail(s)) ELSE s

RECURSIVE RStrip(_)
RStrip(s) == IF s # <<>> /\ s[Len(s)] = " " THEN RStrip(SubSeq(s, 1, Len(s) - 1)) ELSE s

Strip(s) == RStrip(LStrip(s))

\* isinstance(v, str) and v.startswith("Error:")
StartsWithError(v) == v.tag = "str" /\ v.val # <<>> /\ Head(v.val) = "Error:"

\* Python truthiness of a value that is None or a string.
Truthy(v) == v.tag = "true" \/ (v.tag = "str" /\ v.val # <<>>)

\* `v and v.strip()` / the negation of `not v or not v.strip()`.
HasText_NoStrip(v) == Truthy(v)

HasText(v) == Truthy(v) /\ Strip(v.val) # <<>>

\* What backend.extract_text_from_pdf may hand back to the loop.
ExtractReturns ==
    { None, Raised, Str(<<"Error:", "w">>), Str(<<>>), Str(<<" ">>), Str(<<"w">>) }

\* What backend.process_text_with_gemini may hand back to the loop.
GeminiReturns ==
    { None, Raised, Str(<<"Error:", "w">>), Str(<<>>), Str(<<" ">>), Str(<<"w">>) }

\* What backend.append_text_to_document may hand back to the loop.
AppendReturns == { PyTrue, PyFalse, Raised }

\* The sidebar's default rules: non-blank text wrapped in newlines.
default_rules == <<" ", "w", " ">>

\* What the rules text area may hold.
RulesInputs == { default_rules, <<"w">>, <<" ">>, <<>> }

\* The sidebar's API key field.
ApiKeyInputs == { <<"w">>, <<>> }

\* model_options: the selectbox always yields one of these ids.
ModelIds == { "gemini-1.5-flash-latest", "gemini-1.5-pro-latest" }

(* ------------------------------ state --------------------------------- *)

VARIABLES
    ordered_files,               \* st.session_state.ordered_files (names)
    merged_doc_buffer,           \* st.session_state.merged_doc_buffer
    files_processed_count,       \* st.session_state.files_processed_count
    processing_complete,         \* st.session_state.processing_complete
    processing_started,          \* st.session_state.processing_started
    pc,                          \* position of the script run
    i,                           \* loop index (0-based)
    total_files,
    master_document,
    files_successfully_appended,
    raw_text,
    processed_text,
    extraction_error,
    gemini_error_occurred,
    append_error_occurred,
    current_rules,
    calls,                       \* history: backend calls of the current run
    ex_pc,                       \* extract(): position in the method chain
    ex_out,                      \* extract(): what each method does
    ex_tried,                    \* extract(): methods invoked so far
    ex_last_error,               \* extract(): last exception caught
    ex_any_returned,             \* extract(): some method returned normally
    ex_result,                   \* extract(): the ExtractionResult
    api_key_input,               \* the API key the current run read (line 104)
    rules_prompt_input,          \* the rules text the current run read (line 144)
    last_call,                   \* history: the callback the last step ran
    built_from,                  \* history: the list the buffer was built from
    pg_pc,                       \* extract_pdf_content: position
    pg_start,                    \* extract_pdf_content: start_page
    pg_end,                      \* extract_pdf_content: end_page
    pg_i,                        \* extract_pdf_content: loop variable i
    pg_config,                   \* extract_pdf_content: genai.configure outcome
    pg_model,                    \* extract_pdf_content: the model object
    pg_yields,                   \* history: what the generator yielded
    pg_log                       \* history: page files touched, requests sent

session == <<ordered_files, merged_doc_buffer, files_processed_count,
             processing_complete, processing_started>>

locals == <<i, total_files, master_document, files_successfully_appended,
            raw_text, processed_text, extraction_error, gemini_error_occurred,
            append_error_occurred, current_rules>>

exvars == <<ex_pc, ex_out, ex_tried, ex_last_error, ex_any_returned, ex_result>>

inputs == <<api_key_input, rules_prompt_input>>

history == <<last_call, built_from>>

pgvars == <<pg_pc, pg_start, pg_end, pg_i, pg_config, pg_model, pg_yields, pg_log>>

vars == <<session, pc, locals, calls, exvars, inputs, history, pgvars>>

\* A document object, or its absence (None).
NoDoc == [present |-> FALSE, body |-> <<>>]

Doc(body) == [present |-> TRUE, body |-> body]

PageBreak == [kind |-> "break", name |-> ""]

Unit(kind, name) == [kind |-> kind, name |-> name]

\* One entry of the call history.
Call(op, idx, name, text, first, ret) ==
    [op |-> op, file |-> idx, name |-> name, text |-> text,
     is_first_file |-> first, ret |-> ret]

(* --------------------------- pure helpers ----------------------------- *)

\* files[a], files[b] = files[b], files[a] (0-based indices).
Swap_Overwrite(files, a, b) ==
    [k \in 1..Len(files) |-> IF k = a + 1 THEN files[b + 1] ELSE files[k]]

Swap(files, a, b) ==
    [k \in 1..Len(files) |->
        IF k = a + 1 THEN files[b + 1]
        ELSE IF k = b + 1 THEN files[a + 1]
        ELSE files[k]]

\* files.pop(index) (0-based index): the list without that entry.
Pop(files, index) ==
    SubSeq(files, 1, index) \o SubSeq(files, index + 2, Len(files))

AddUploads_NoDedupe(files, uploads) == files \o uploads

\* The loop of handle_uploads: append every upload whose name is not yet seen.
RECURSIVE AddUploads(_, _)
AddUploads(files, uploads) ==
    IF uploads = <<>> THEN files
    ELSE IF \E k \in 1..Len(files) : files[k] = Head(uploads)
         THEN AddUploads(files, Tail(uploads))
         ELSE AddUploads(Append(files, Head(uploads)), Tail(uploads))

\* The uploader widget's value: up to MaxUpload files, names may repeat.
UploadBatches == UNION { [1..n -> FileNames] : n \in 1..MaxUpload }

\* enumerate(ordered_files): the file of loop index idx (0-based).
FileAt_Reversed(files, idx) == files[Len(files) - idx]

FileAt(files, idx) == files[idx + 1]

\* Lines 359-370: which results of the extraction call set extraction_error.
ExtractionFailed_NoPrefixCheck(ret) == ret.tag = "raise" \/ ret.tag = "none"

ExtractionFailed_EmptyIsError(ret) ==
    ret.tag = "raise" \/ ret.tag = "none" \/ StartsWithError(ret) \/ ~Truthy(ret)

ExtractionFailed(ret) ==
    ret.tag = "raise" \/ ret.tag = "none" \/ StartsWithError(ret)

\* Lines 382-391: which results of the transform call set gemini_error_occurred.
GeminiError_NoPrefixCheck(ret) == ret.tag = "raise" \/ ret.tag = "none"

GeminiError(ret) ==
    ret.tag = "raise" \/ ret.tag = "none" \/ StartsWithError(ret)

\* Line 450: whether the master document is saved at all.
ShouldSave(appended, total) == appended > 0 \/ total > 0

\* backend.append_text_to_document on success: a page break unless
\* is_first_file, then the text's paragraphs or, for blank text, a placeholder.
AppendTextToDocument(doc, text, name, is_first_file) ==
    Doc(doc.body
        \o (IF is_first_file THEN <<>> ELSE <<PageBreak>>)
        \o <<Unit(IF HasText(text) THEN "content" ELSE "placeholder", name)>>)

PreCheck_BlankRulesPassedOn(files, api_key, rules_prompt, model_id) ==
    IF files = <<>> THEN [started |-> FALSE, rules |-> Unbound]
    ELSE IF api_key = <<>> THEN [started |-> FALSE, rules |-> Unbound]
    ELSE IF model_id = "" THEN [started |-> FALSE, rules |-> Unbound]
    ELSE [started |-> TRUE, rules |-> Str(rules_prompt)]

\* Lines 272-288: the checks after a process button press.
PreCheck(files, api_key, rules_prompt, model_id) ==
    IF files = <<>> THEN [started |-> FALSE, rules |-> Unbound]
    ELSE IF api_key = <<>> THEN [started |-> FALSE, rules |-> Unbound]
    ELSE IF Strip(rules_prompt) = <<>>
         THEN [started |-> TRUE, rules |-> Str(default_rules)]
    ELSE IF model_id = "" THEN [started |-> FALSE, rules |-> Unbound]
    ELSE [started |-> TRUE, rules |-> Str(rules_prompt)]

\* Line 290: proceed only if the checks passed.
Proceed(files, api_key, started, model_id) ==
    files # <<>> /\ api_key # <<>> /\ started /\ model_id # ""

(* ----------------------- TextExtractor.extract ------------------------ *)
\* The layered extraction behind backend.extract_text_from_pdf (spec 4.1).

\* The methods, in the order extract tries them.
Methods == <<"Structural", "LocalOCR", "CloudOCR">>

\* Methods that call a remote service.
RemoteMethods == {"CloudOCR"}

\* What one method does when invoked: it returns text, throws, or (a remote
\* method) finds its dependency or credential missing.
Returns(text) == [kind |-> "text", val |-> text, msg |-> ""]

Throws(m) == [kind |-> "throws", val |-> <<>>, msg |-> "failed: " \o m]

Misconfigured(m) == [kind |-> "config", val |-> <<>>, msg |-> "not configured: " \o m]

MethodOutcomes(m) ==
    { Returns(t) : t \in { <<>>, <<" ">>, <<"w">>, <<" ", "w", " ">> } }
       \cup { Throws(m) }
       \cup (IF m \in RemoteMethods THEN { Misconfigured(m) } ELSE {})

MethodSet == { Methods[n] : n \in 1..Len(Methods) }

AllOutcomes == UNION { MethodOutcomes(m) : m \in MethodSet }

\* ExtractionResult (spec 3).
NoResult == [status |-> "None", text |-> <<>>, methodUsed |-> "None", errorDetail |-> ""]

Success(text, m) == [status |-> "Success", text |-> text, methodUsed |-> m, errorDetail |-> ""]

EmptyText == [status |-> "EmptyText", text |-> <<>>, methodUsed |-> "None", errorDetail |-> ""]

Failure(detail) == [status |-> "Failure", text |-> <<>>, methodUsed |-> "None", errorDetail |-> detail]

\* The method's output is non-empty after trimming whitespace.
YieldsText_NoTrim(out) == out.kind = "text" /\ out.val # <<>>

YieldsText(out) == out.kind = "text" /\ Strip(out.val) # <<>>

\* Where the chain goes after method number n found nothing.
AfterMethod(n) == IF n < Len(Methods) THEN Methods[n + 1] ELSE "conclude"

MethodNumber(m) == CHOOSE n \in 1..Len(Methods) : Methods[n] = m

(* ------------------------------ Init ---------------------------------- *)

LocalsCleared ==
    /\ i = 0
    /\ total_files = 0
    /\ master_document = NoDoc
    /\ files_successfully_appended = 0
    /\ raw_text = None
    /\ processed_text = Str(<<>>)
    /\ extraction_error = FALSE
    /\ gemini_error_occurred = FALSE
    /\ append_error_occurred = FALSE
    /\ current_rules = Unbound

ExtractorOff ==
    /\ ex_pc = "off"
    /\ ex_out = <<>>
    /\ ex_tried = <<>>
    /\ ex_last_error = ""
    /\ ex_any_returned = FALSE
    /\ ex_result = NoResult

\* default_state (lines 29-38), before any script run.
\* No callback ran in the last step.
NoCall == [op |-> "none"]

\* extract_pdf_content has not been called.
PagesOff ==
    /\ pg_pc = "off"
    /\ pg_start = 0
    /\ pg_end = 0
    /\ pg_i = 0
    /\ pg_config = "unset"
    /\ pg_model = "unset"
    /\ pg_yields = <<>>
    /\ pg_log = <<>>

\* No script run: its variables do not exist.
InputsCleared ==
    /\ api_key_input = Unbound
    /\ rules_prompt_input = Unbound

HistoryEmpty ==
    /\ last_call = NoCall
    /\ built_from = <<>>

Init ==
    /\ ordered_files = <<>>
    /\ merged_doc_buffer = NoDoc
    /\ files_processed_count = 0
    /\ processing_complete = FALSE
    /\ processing_started = FALSE
    /\ pc = "idle"
    /\ LocalsCleared
    /\ calls = <<>>
    /\ ExtractorOff
    /\ InputsCleared
    /\ HistoryEmpty
    /\ PagesOff

(* ---------------------------- callbacks ------------------------------- *)
\* Streamlit runs a widget's callback before the script run that follows the
\* interaction, never inside a run: the callbacks act at pc = "idle".

reset_processing_state_KeepsBuffer ==
    /\ UNCHANGED merged_doc_buffer
    /\ files_processed_count' = 0
    /\ processing_complete' = FALSE
    /\ processing_started' = FALSE

reset_processing_state ==
    /\ merged_doc_buffer' = NoDoc
    /\ files_processed_count' = 0
    /\ processing_complete' = FALSE
    /\ processing_started' = FALSE

move_file(index, direction) ==
    /\ pc = "idle"
    /\ IF ~(0 <= index /\ index < Len(ordered_files))
       THEN UNCHANGED session
       ELSE IF ~(0 <= index + direction /\ index + direction < Len(ordered_files))
       THEN UNCHANGED session
       ELSE /\ ordered_files' = Swap(ordered_files, index, index + direction)
            /\ reset_processing_state
    /\ UNCHANGED <<pc, locals, calls, exvars>>

remove_file_AlwaysResets(index) ==
    /\ pc = "idle"
    /\ ordered_files' = IF 0 <= index /\ index < Len(ordered_files)
                        THEN Pop(ordered_files, index) ELSE ordered_files
    /\ reset_processing_state
    /\ UNCHANGED <<pc, locals, calls, exvars>>

remove_file(index) ==
    /\ pc = "idle"
    /\ IF 0 <= index /\ index < Len(ordered_files)
       THEN /\ ordered_files' = Pop(ordered_files, index)
            /\ reset_processing_state
       ELSE UNCHANGED session
    /\ UNCHANGED <<pc, locals, calls, exvars>>

handle_uploads(pdf_uploader) ==
    /\ pc = "idle"
    /\ Len(AddUploads(ordered_files, pdf_uploader)) <= MaxFiles
    /\ ordered_files' = AddUploads(ordered_files, pdf_uploader)
    /\ IF Len(ordered_files') - Len(ordered_files) > 0
       THEN reset_processing_state
       ELSE UNCHANGED <<merged_doc_buffer, files_processed_count,
                        processing_complete, processing_started>>
    /\ UNCHANGED <<pc, locals, calls, exvars>>

clear_all_files_callback ==
    /\ pc = "idle"
    /\ ordered_files' = <<>>
    /\ reset_processing_state
    /\ UNCHANGED <<pc, locals, calls, exvars>>

MoveFile ==
    \E index \in -1..MaxFiles, direction \in {-1, 1} :
        /\ move_file(index, direction)
        /\ last_call' = [op |-> "move_file", index |-> index, direction |-> direction]

RemoveFile ==
    \E index \in -1..MaxFiles :
        /\ remove_file(index)
        /\ last_call' = [op |-> "remove_file", index |-> index]

HandleUploads ==
    \E pdf_uploader \in UploadBatches :
        /\ handle_uploads(pdf_uploader)
        /\ last_call' = [op |-> "handle_uploads", pdf_uploader |-> pdf_uploader]

ClearAllFiles ==
    /\ clear_all_files_callback
    /\ last_call' = [op |-> "clear_all_files_callback"]

(* -------------------------- processing run ---------------------------- *)

\* Lines 268-290: a process button was clicked (the buttons are disabled
\* while processing_started or while the list is empty, lines 174 and 239).
ProcessClicked ==
    /\ pc = "idle"
    /\ ~processing_started
    /\ ordered_files # <<>>
    /\ \E key \in ApiKeyInputs, rules \in RulesInputs, model_id \in ModelIds :
          LET chk == PreCheck(ordered_files, key, rules, model_id)
              go == Proceed(ordered_files, key, chk.started, model_id)
          IN  /\ api_key_input' = Str(key)
              /\ rules_prompt_input' = Str(rules)
              /\ merged_doc_buffer' = NoDoc
              /\ files_processed_count' = 0
              /\ processing_complete' = FALSE
              /\ processing_started' = (chk.started /\ go)
              /\ current_rules' = chk.rules
              /\ pc' = IF go THEN "init_doc" ELSE "done"
    /\ UNCHANGED <<ordered_files, i, total_files, master_document,
                   files_successfully_appended, raw_text, processed_text,
                   extraction_error, gemini_error_occurred,
                   append_error_occurred, calls, exvars>>

\* Lines 293-330: the master document and its default styles are set up.
InitDocument ==
    /\ pc = "init_doc"
    /\ master_document' = Doc(<<>>)
    /\ files_successfully_appended' = 0
    /\ total_files' = Len(ordered_files)
    /\ i' = 0
    /\ pc' = IF Len(ordered_files) > 0 THEN "extract" ELSE "save"
    /\ UNCHANGED <<session, raw_text, processed_text, extraction_error,
                   gemini_error_occurred, append_error_occurred, current_rules,
                   calls, exvars>>

InitDocumentFailed_KeepsStarted ==
    /\ pc = "init_doc"
    /\ master_document' = NoDoc
    /\ pc' = "done"
    /\ UNCHANGED <<session, i, total_files,
                   files_successfully_appended, raw_text, processed_text,
                   extraction_error, gemini_error_occurred,
                   append_error_occurred, current_rules, calls, exvars>>

\* Lines 316-320 and 480-481: setting the styles raised.
InitDocumentFailed ==
    /\ pc = "init_doc"
    /\ master_document' = NoDoc
    /\ processing_started' = FALSE
    /\ pc' = "done"
    /\ UNCHANGED <<ordered_files, merged_doc_buffer, files_processed_count,
                   processing_complete, i, total_files,
                   files_successfully_appended, raw_text, processed_text,
                   extraction_error, gemini_error_occurred,
                   append_error_occurred, current_rules, calls, exvars>>

\* Lines 428-436: the end of one loop iteration.  with_issues is line 430's
\* condition: it only changes the progress text, never the control flow.
NextIteration_AbortOnIssue(with_issues) ==
    IF with_issues
    THEN i' = i /\ pc' = "done"
    ELSE IF i + 1 < total_files
         THEN i' = i + 1 /\ pc' = "extract"
         ELSE i' = i /\ pc' = "save"

NextIteration_SaveAfterFirst(with_issues) == i' = i /\ pc' = "save"

NextIteration(with_issues) ==
    IF i + 1 < total_files
    THEN i' = i + 1 /\ pc' = "extract"
    ELSE i' = i /\ pc' = "save"

\* Lines 347-370 (and 424-425 when the extraction failed).
ExtractText ==
    /\ pc = "extract"
    /\ \E ret \in ExtractReturns :
          /\ raw_text' = IF ret.tag = "raise" THEN None ELSE ret
          /\ extraction_error' = ExtractionFailed(ret)
          /\ calls' = Append(calls,
                 Call("extract", i, FileAt(ordered_files, i), <<>>, FALSE, ret))
          /\ IF ExtractionFailed(ret)
             THEN NextIteration(TRUE)
             ELSE i' = i /\ pc' = "transform"
    /\ processed_text' = Str(<<>>)
    /\ gemini_error_occurred' = FALSE
    /\ append_error_occurred' = FALSE
    /\ UNCHANGED <<session, total_files, master_document,
                   files_successfully_appended, current_rules, exvars>>

\* Lines 374-391: the extracted text is sent to the generative service.
ProcessWithGemini ==
    /\ pc = "transform"
    /\ HasText(raw_text)
    /\ \E ret \in GeminiReturns :
          /\ gemini_error_occurred' = GeminiError(ret)
          /\ processed_text' = IF GeminiError(ret) THEN Str(<<>>) ELSE ret
          /\ calls' = Append(calls,
                 Call("transform", i, FileAt(ordered_files, i), raw_text.val, FALSE, ret))
    /\ pc' = "append"
    /\ UNCHANGED <<session, i, total_files, master_document,
                   files_successfully_appended, raw_text, extraction_error,
                   append_error_occurred, current_rules, exvars>>

\* Lines 392-393: nothing was extracted, the service is not called.
SkipGemini ==
    /\ pc = "transform"
    /\ ~HasText(raw_text)
    /\ pc' = "append"
    /\ UNCHANGED <<session, locals, calls, exvars>>

\* Lines 398-422: the text is appended to the master document.  A call that
\* returns False or raises leaves the document as it was (spec 4.4: a unit
\* that fails to append is skipped).
AppendToDocument ==
    /\ pc = "append"
    /\ \E ret \in AppendReturns :
          /\ master_document' =
                IF ret = PyTrue
                THEN AppendTextToDocument(master_document, processed_text,
                                          FileAt(ordered_files, i), i = 0)
                ELSE master_document
          /\ files_successfully_appended' =
                IF ret = PyTrue THEN files_successfully_appended + 1
                ELSE files_successfully_appended
          /\ append_error_occurred' = (ret # PyTrue)
          /\ calls' = Append(calls,
                 Call("append", i, FileAt(ordered_files, i), processed_text.val, i = 0, ret))
          /\ NextIteration(gemini_error_occurred \/ ret # PyTrue)
    /\ UNCHANGED <<session, total_files, raw_text, processed_text,
                   extraction_error, gemini_error_occurred, current_rules, exvars>>

\* Lines 444-475: the master document is saved into the session.
SaveMasterDocument ==
    /\ pc = "save"
    /\ IF ShouldSave(files_successfully_appended, total_files)
       THEN \E ret \in {PyTrue, Raised} :
              /\ calls' = Append(calls, Call("save", total_files, "", <<>>, FALSE, ret))
              /\ IF ret = PyTrue
                 THEN /\ merged_doc_buffer' = master_document
                      /\ files_processed_count' = files_successfully_appended
                 ELSE UNCHANGED <<merged_doc_buffer, files_processed_count>>
       ELSE UNCHANGED <<merged_doc_buffer, files_processed_count, calls>>
    /\ processing_complete' = TRUE
    /\ processing_started' = FALSE
    /\ pc' = "done"
    /\ UNCHANGED <<ordered_files, locals, exvars>>

\* The script run ends (st.rerun() or the end of the script): its local
\* variables are gone, the session state stays.
EndRun ==
    /\ pc = "done"
    /\ pc' = "idle"
    /\ i' = 0
    /\ total_files' = 0
    /\ master_document' = NoDoc
    /\ files_successfully_appended' = 0
    /\ raw_text' = None
    /\ processed_text' = Str(<<>>)
    /\ extraction_error' = FALSE
    /\ gemini_error_occurred' = FALSE
    /\ append_error_occurred' = FALSE
    /\ current_rules' = Unbound
    /\ api_key_input' = Unbound
    /\ rules_prompt_input' = Unbound
    /\ calls' = <<>>
    /\ UNCHANGED <<session, exvars>>

\* The list a buffer was built from is the list of the run that stored it
\* (line 464); it is forgotten when the buffer is reset to None.
Provenance ==
    built_from' = IF ~merged_doc_buffer'.present THEN <<>>
                  ELSE IF ~merged_doc_buffer.present THEN ordered_files
                  ELSE built_from

\* A step of the app: extract_pdf_content is not involved.
AppStep == pg_pc = "off" /\ UNCHANGED pgvars /\ Provenance

\* A callback runs between script runs.
CallbackStep == UNCHANGED inputs /\ AppStep

\* A step inside a script run is no callback.
RunStep == UNCHANGED inputs /\ last_call' = NoCall /\ AppStep

Next ==
    \/ HandleUploads /\ CallbackStep
    \/ MoveFile /\ CallbackStep
    \/ RemoveFile /\ CallbackStep
    \/ ClearAllFiles /\ CallbackStep
    \/ ProcessClicked /\ last_call' = NoCall /\ AppStep
    \/ InitDocument /\ RunStep
    \/ InitDocumentFailed /\ RunStep
    \/ ExtractText /\ RunStep
    \/ ProcessWithGemini /\ RunStep
    \/ SkipGemini /\ RunStep
    \/ AppendToDocument /\ RunStep
    \/ SaveMasterDocument /\ RunStep
    \/ EndRun /\ last_call' = NoCall /\ AppStep

Spec == Init /\ [][Next]_vars

(* ------------------- TextExtractor.extract: steps --------------------- *)

\* extract is called on one source; what each method does with it is
\* fixed by the source and the environment.
InitExtract ==
    /\ ordered_files = <<>>
    /\ merged_doc_buffer = NoDoc
    /\ files_processed_count = 0
    /\ processing_complete = FALSE
    /\ processing_started = FALSE
    /\ pc = "idle"
    /\ LocalsCleared
    /\ calls = <<>>
    /\ ex_pc = Methods[1]
    /\ ex_out \in { f \in [ MethodSet -> AllOutcomes ] :
                       \A m \in MethodSet : f[m] \in MethodOutcomes(m) }
    /\ ex_tried = <<>>
    /\ ex_last_error = ""
    /\ ex_any_returned = FALSE
    /\ ex_result = NoResult
    /\ InputsCleared
    /\ HistoryEmpty
    /\ PagesOff

\* One method of the chain is invoked.
TryMethod ==
    /\ ex_pc \in MethodSet
    /\ LET out == ex_out[ex_pc]
       IN /\ ex_tried' = Append(ex_tried, ex_pc)
          /\ IF YieldsText(out)
             THEN /\ ex_result' = Success(Strip(out.val), ex_pc)
                  /\ ex_pc' = "done"
                  /\ UNCHANGED <<ex_last_error, ex_any_returned>>
             ELSE IF out.kind = "config"
             THEN /\ ex_result' = Failure(out.msg)
                  /\ ex_pc' = "done"
                  /\ ex_last_error' = out.msg
                  /\ UNCHANGED ex_any_returned
             ELSE /\ ex_pc' = AfterMethod(MethodNumber(ex_pc))
                  /\ ex_last_error' = IF out.kind = "throws" THEN out.msg ELSE ex_last_error
                  /\ ex_any_returned' = (ex_any_returned \/ out.kind = "text")
                  /\ UNCHANGED ex_result
    /\ UNCHANGED <<session, pc, locals, calls, ex_out>>

\* No method yielded text.
Conclude ==
    /\ ex_pc = "conclude"
    /\ ex_result' = IF ex_any_returned THEN EmptyText ELSE Failure(ex_last_error)
    /\ ex_pc' = "done"
    /\ UNCHANGED <<session, pc, locals, calls, ex_out, ex_tried,
                   ex_last_error, ex_any_returned>>

NextExtract ==
    \/ TryMethod /\ UNCHANGED <<inputs, history, pgvars>>
    \/ Conclude /\ UNCHANGED <<inputs, history, pgvars>>

SpecExtract == InitExtract /\ [][NextExtract]_vars

(* ------------------ backend.extract_pdf_content ----------------------- *)
\* The generator of backend.py, lines 406-534: one iteration per page
\* image, one remote request per readable image.

MaxPage == 2

PageNumbers == 1..MaxPage

\* What the service's answer turns out to be (lines 488-524).
RequestOutcomes == {"raises", "no_json", "bad_json", "json"}

\* Lines 461, 474-477, 511, 514, 524: the dict of a page that failed.
ErrorDict(msg, page) == [error |-> msg, page |-> page]

\* Lines 511 and 514: the error dict that also carries the raw text.
ErrorDictWithRaw(msg, page) == [error |-> msg, page |-> page, raw_text |-> "raw"]

\* Line 506: the object parsed from the answer; its keys are the service's.
ResultJson == [data |-> "parsed"]

\* One yield of the generator, with the loop variable at that moment.
Yield(at, dict) == [at |-> at, dict |-> dict]

Event(ev, page) == [ev |-> ev, page |-> page]

AfterConfigError_Swallowed(next) == next

\* Lines 426-428 and 437-439: the handler re-raises.
AfterConfigError(next) == "raised"

AfterRequestError_Retry == "request"

\* Lines 517-534: the handler yields the error, then the finally block.
AfterRequestError == "sleep"

AfterSkippedPage_Return == "done"

\* Lines 462 and 478: continue with the next page.
AfterSkippedPage == "page"

\* extract_pdf_content(prompt, start_page, end_page) is called and iterated.
InitPages ==
    /\ ordered_files = <<>>
    /\ merged_doc_buffer = NoDoc
    /\ files_processed_count = 0
    /\ processing_complete = FALSE
    /\ processing_started = FALSE
    /\ pc = "idle"
    /\ LocalsCleared
    /\ calls = <<>>
    /\ ExtractorOff
    /\ InputsCleared
    /\ HistoryEmpty
    /\ pg_pc = "configure"
    /\ pg_start \in PageNumbers
    /\ pg_end \in PageNumbers
    /\ pg_i = 0
    /\ pg_config = "unset"
    /\ pg_model = "unset"
    /\ pg_yields = <<>>
    /\ pg_log = <<>>

\* Lines 419-428: genai.configure with the key given or the one of the
\* environment.
ConfigureClient ==
    /\ pg_pc = "configure"
    /\ \E ok \in BOOLEAN :
          /\ pg_config' = IF ok THEN "ok" ELSE "failed"
          /\ pg_pc' = IF ok THEN "model" ELSE AfterConfigError("model")
    /\ UNCHANGED <<pg_start, pg_end, pg_i, pg_model, pg_yields, pg_log>>

\* Lines 434-439: the model object is created.
InitModel ==
    /\ pg_pc = "model"
    /\ \E ok \in BOOLEAN :
          /\ pg_model' = IF ok THEN "ok" ELSE "failed"
          /\ pg_pc' = IF ok THEN "page" ELSE AfterConfigError("page")
    /\ pg_i' = pg_start
    /\ UNCHANGED <<pg_start, pg_end, pg_config, pg_yields, pg_log>>

\* Line 457: range(start_page, end_page + 1) is exhausted.
PagesDone ==
    /\ pg_pc = "page"
    /\ pg_i > pg_end
    /\ pg_pc' = "done"
    /\ UNCHANGED <<pg_start, pg_end, pg_i, pg_config, pg_model, pg_yields, pg_log>>

\* Lines 458-462: the page image does not exist.
ImageMissing ==
    /\ pg_pc = "page"
    /\ pg_i <= pg_end
    /\ pg_log' = Append(pg_log, Event("exists", pg_i))
    /\ pg_yields' = Append(pg_yields, Yield(pg_i, ErrorDict("Image file not found", pg_i)))
    /\ pg_i' = pg_i + 1
    /\ pg_pc' = AfterSkippedPage
    /\ UNCHANGED <<pg_start, pg_end, pg_config, pg_model>>

\* Lines 458-459: the page image exists.
ImageFound ==
    /\ pg_pc = "page"
    /\ pg_i <= pg_end
    /\ pg_log' = Append(pg_log, Event("exists", pg_i))
    /\ pg_pc' = "read"
    /\ UNCHANGED <<pg_start, pg_end, pg_i, pg_config, pg_model, pg_yields>>

\* Lines 466-478: the image bytes are read.
ReadImage ==
    /\ pg_pc = "read"
    /\ pg_log' = Append(pg_log, Event("read", pg_i))
    /\ \E ok \in BOOLEAN :
          IF ok
          THEN /\ pg_pc' = "request"
               /\ UNCHANGED <<pg_i, pg_yields>>
          ELSE /\ pg_yields' = Append(pg_yields,
                                 Yield(pg_i, ErrorDict("File upload/read failed", pg_i)))
               /\ pg_i' = pg_i + 1
               /\ pg_pc' = AfterSkippedPage
    /\ UNCHANGED <<pg_start, pg_end, pg_config, pg_model>>

\* Lines 482-524: one generate_content request, and what is yielded for
\* its answer.
GenerateContent ==
    /\ pg_pc = "request"
    /\ pg_log' = Append(pg_log, Event("request", pg_i))
    /\ \E out \in RequestOutcomes :
          /\ pg_yields' = Append(pg_yields, Yield(pg_i,
                CASE out = "json" -> ResultJson
                  [] out = "bad_json" -> ErrorDictWithRaw("JSON Decode Error", pg_i)
                  [] out = "no_json" -> ErrorDictWithRaw("No JSON block found in response", pg_i)
                  [] out = "raises" -> ErrorDict("Failed to process page", pg_i)))
          /\ pg_pc' = IF out = "raises" THEN AfterRequestError ELSE "sleep"
    /\ UNCHANGED <<pg_start, pg_end, pg_i, pg_config, pg_model>>

\* Lines 526-534: the finally block sleeps, then the loop goes on.
SleepAfterRequest ==
    /\ pg_pc = "sleep"
    /\ pg_i' = pg_i + 1
    /\ pg_pc' = "page"
    /\ UNCHANGED <<pg_start, pg_end, pg_config, pg_model, pg_yields, pg_log>>

appvars == <<session, pc, locals, calls, exvars, inputs, history>>

NextPages ==
    \/ ConfigureClient /\ UNCHANGED appvars
    \/ InitModel /\ UNCHANGED appvars
    \/ PagesDone /\ UNCHANGED appvars
    \/ ImageMissing /\ UNCHANGED appvars
    \/ ImageFound /\ UNCHANGED appvars
    \/ ReadImage /\ UNCHANGED appvars
    \/ GenerateContent /\ UNCHANGED appvars
    \/ SleepAfterRequest /\ UNCHANGED appvars

\* The app and the generator, each used on its own.
InitAll == Init \/ InitPages

NextAll == Next \/ NextPages

SpecAll == InitAll /\ [][NextAll]_vars

(* ------------------------ reading the history ------------------------- *)

\* Positions of the calls of one operation on one file (0-based loop index).
CallsOn(op, idx) ==
    { k \in 1..Len(calls) : calls[k].op = op /\ calls[k].file = idx }

CallsOf(op) == { k \in 1..Len(calls) : calls[k].op = op }

\* The loop ran and the script reached its end.
BatchEnded == pc = "done" /\ master_document.present

\* The call's result is one of the three failure shapes the loop tests for.
FailureShape(ret) ==
    \/ ret = None
    \/ ret = Raised
    \/ (ret.tag = "str" /\ Len(ret.val) > 0 /\ ret.val[1] = "Error:")

\* The call returned a string that is empty or whitespace only.
BlankString(ret) ==
    ret.tag = "str" /\ \A k \in 1..Len(ret.val) : ret.val[k] = " "

\* The units of a document body, page breaks left out.
UnitsOf(body) == SelectSeq(body, LAMBDA e : e.kind # "break")

BreaksOf(body) == SelectSeq(body, LAMBDA e : e.kind = "break")

NamesOf(body) == [k \in 1..Len(UnitsOf(body)) |-> UnitsOf(body)[k].name]

\* s is a subsequence of t: s can be read off t from left to right.
RECURSIVE IsSubsequence(_, _)
IsSubsequence(s, t) ==
    IF s = <<>> THEN TRUE
    ELSE IF t = <<>> THEN FALSE
    ELSE IF Head(s) = Head(t) THEN IsSubsequence(Tail(s), Tail(t))
    ELSE IsSubsequence(s, Tail(t))

(* ------------------------------ claims -------------------------------- *)

\* C1: a per-file error never aborts the batch: when the batch has ended,
\* whatever the extraction, transform and append calls returned or raised,
\* every file of the list was attempted (extracted) exactly once, in list
\* order, and the save step was reached exactly once.
C1_BatchNeverAborted ==
    BatchEnded =>
        /\ \A idx \in 0..(Len(ordered_files) - 1) :
              /\ Cardinality(CallsOn("extract", idx)) = 1
              /\ \A k \in CallsOn("extract", idx) :
                    calls[k].name = ordered_files[idx + 1]
        /\ Cardinality(CallsOf("extract")) = Len(ordered_files)
        /\ Cardinality(CallsOf("save")) = 1
        /\ calls[Len(calls)].op = "save"

\* C1 witness: a two-file batch ended although the first file's extraction
\* raised and the second file's transform and append both raised.
C1_Witness ==
    /\ BatchEnded
    /\ Len(ordered_files) = 2
    /\ \E k \in CallsOn("extract", 0) : calls[k].ret = Raised
    /\ \E k \in CallsOn("transform", 1) : calls[k].ret = Raised
    /\ \E k \in CallsOn("append", 1) : calls[k].ret = Raised
    /\ \E k \in CallsOf("save") : TRUE

\* C2: a file whose extraction fails (None, an "Error:" string, or an
\* exception) is skipped: no transform call and no append call is made for
\* it, and the document holds nothing of it (the document holds only what
\* successful append calls put there).
C2_FailedExtractionSkipped ==
    /\ \A k \in CallsOf("extract") :
          FailureShape(calls[k].ret) =>
             /\ CallsOn("transform", calls[k].file) = {}
             /\ CallsOn("append", calls[k].file) = {}
             /\ \A e \in 1..Len(master_document.body) :
                   master_document.body[e].name # calls[k].name
    /\ Len(UnitsOf(master_document.body)) =
          Cardinality({ k \in CallsOf("append") : calls[k].ret = PyTrue })

\* C2 witness: the first file's extraction returned an "Error:" string and
\* the run went on to append the second file.
C2_Witness ==
    /\ BatchEnded
    /\ \E k \in CallsOn("extract", 0) : calls[k].ret = Str(<<"Error:", "w">>)
    /\ \E k \in CallsOn("append", 1) : calls[k].ret = PyTrue
    /\ Len(UnitsOf(master_document.body)) = 1

\* C3: when the transform call of a file fails (None, an "Error:" string, or
\* an exception) the file still goes to the append step, and the one append
\* call made for it carries empty text: not the raw text, not the error text.
C3_FailedTransformPlaceholder ==
    \A k \in CallsOf("transform") :
       FailureShape(calls[k].ret) =>
          \/ /\ pc = "append"
             /\ i = calls[k].file
             /\ processed_text = Str(<<>>)
             /\ CallsOn("append", calls[k].file) = {}
          \/ /\ Cardinality(CallsOn("append", calls[k].file)) = 1
             /\ \A a \in CallsOn("append", calls[k].file) :
                   a > k /\ calls[a].text = <<>>

\* C3 witness: a transform call raised and the same file was then appended
\* as a placeholder.
C3_Witness ==
    /\ BatchEnded
    /\ \E k \in CallsOn("transform", 0) : calls[k].ret = Raised
    /\ \E a \in CallsOn("append", 0) : calls[a].ret = PyTrue /\ calls[a].text = <<>>
    /\ master_document.body = <<Unit("placeholder", ordered_files[1])>>

\* C4: for a file whose extracted text is empty or whitespace only the
\* generative service is never called.
C4_NoCallForBlankText ==
    \A k \in CallsOf("extract") :
       BlankString(calls[k].ret) => CallsOn("transform", calls[k].file) = {}

\* C4 witness: extraction returned whitespace-only text and the file moved
\* on to the append step without a transform call.
C4_Witness ==
    /\ \E k \in CallsOn("extract", 0) : calls[k].ret = Str(<<" ">>)
    /\ CallsOn("append", 0) # {}
    /\ CallsOn("transform", 0) = {}

\* C5: a source that legitimately produces nothing (extraction returns empty
\* or whitespace-only text) is not treated as an extraction failure and is
\* not dropped: the append step is invoked for it with empty text, and a
\* successful append renders a placeholder for it.
C5_BlankSourceKept ==
    \A k \in CallsOf("extract") :
       BlankString(calls[k].ret) =>
          \/ /\ pc \in {"transform", "append"}
             /\ i = calls[k].file
             /\ ~extraction_error
             /\ processed_text = Str(<<>>)
             /\ CallsOn("append", calls[k].file) = {}
          \/ /\ Cardinality(CallsOn("append", calls[k].file)) = 1
             /\ \A a \in CallsOn("append", calls[k].file) :
                   /\ calls[a].text = <<>>
                   /\ calls[a].ret = PyTrue =>
                         \E e \in 1..Len(master_document.body) :
                            master_document.body[e] = Unit("placeholder", calls[k].name)

\* C5 witness: a file with empty extracted text ended as a placeholder in the
\* saved document.
C5_Witness ==
    /\ BatchEnded
    /\ \E k \in CallsOn("extract", 0) : calls[k].ret = Str(<<>>)
    /\ merged_doc_buffer = Doc(<<Unit("placeholder", ordered_files[1])>>)

\* C6: output order is the list order: the files appended to the composite
\* document (the append calls made, the units of the master document and of
\* the saved buffer) form a subsequence of ordered_files, in the list's order.
C6_OutputInListOrder ==
    /\ IsSubsequence(NamesOf(master_document.body), ordered_files)
    /\ IsSubsequence(NamesOf(merged_doc_buffer.body), ordered_files)
    /\ \A a, b \in CallsOf("append") :
          a < b => calls[a].file < calls[b].file
    /\ \A a \in CallsOf("append") :
          calls[a].name = ordered_files[calls[a].file + 1]

\* C6 witness: the list holds b.pdf before a.pdf and both were appended, in
\* that order.
C6_Witness ==
    /\ BatchEnded
    /\ ordered_files = <<"b.pdf", "a.pdf">>
    /\ NamesOf(merged_doc_buffer.body) = <<"b.pdf", "a.pdf">>

\* The append calls that appended a unit, and those of them that came with a
\* page break (a break is inserted exactly when is_first_file is false).
AppendedCalls == { a \in CallsOf("append") : calls[a].ret = PyTrue }

BreakCalls == { a \in AppendedCalls : ~calls[a].is_first_file }

\* C7: the first unit appended to the composite document gets no leading page
\* break and every later unit is preceded by exactly one, so k appended units
\* come with exactly k-1 page breaks.
C7_PageBreaksBetweenUnits ==
    /\ Cardinality(BreakCalls) =
          (IF AppendedCalls = {} THEN 0 ELSE Cardinality(AppendedCalls) - 1)
    /\ \A a \in AppendedCalls :
          (\A b \in AppendedCalls : a <= b) => calls[a].is_first_file

\* C8: a merge over an empty set of units fails: if no unit was appended
\* during a batch, no document is saved and merged_doc_buffer stays None.
C8_NoEmptyDocumentSaved ==
    merged_doc_buffer.present => UnitsOf(merged_doc_buffer.body) # <<>>

\* C9: the end-of-batch count (files_processed_count) is the number of source
\* files that contributed real content; a file rendered as a placeholder
\* (appended with blank text) is not counted.
C9_CountIsRealContent ==
    (BatchEnded /\ merged_doc_buffer.present) =>
        files_processed_count =
            Cardinality({ a \in CallsOf("append") :
                            calls[a].ret = PyTrue /\ Strip(calls[a].text) # <<>> })

\* Reading one extract run: the methods whose output holds something other
\* than whitespace, the methods that did not return, the first of a set.
YieldingMethods ==
    { n \in 1..Len(Methods) :
        /\ ex_out[Methods[n]].kind = "text"
        /\ \E k \in 1..Len(ex_out[Methods[n]].val) : ex_out[Methods[n]].val[k] # " " }

ThrowingMethods == { n \in 1..Len(Methods) : ex_out[Methods[n]].kind # "text" }

MisconfiguredMethods == { n \in 1..Len(Methods) : ex_out[Methods[n]].kind = "config" }

First(S) == CHOOSE n \in S : \A o \in S : n <= o

\* C10 (as claimed): extract tries Structural, LocalOCR, CloudOCR in that
\* order; the result is Success with methodUsed the first method whose
\* trimmed output is non-empty, later methods not being invoked; EmptyText,
\* never Failure, when no method yields text and at least one returned without
\* throwing; Failure with the last exception's message when every method
\* throws.
C10_ExtractChainAsClaimed ==
    ex_pc = "done" =>
        /\ ex_tried = SubSeq(Methods, 1, Len(ex_tried))
        /\ YieldingMethods # {} =>
              /\ ex_result.status = "Success"
              /\ ex_result.methodUsed = Methods[First(YieldingMethods)]
              /\ Len(ex_tried) = First(YieldingMethods)
        /\ (YieldingMethods = {} /\ ThrowingMethods # 1..Len(Methods)) =>
              ex_result.status = "EmptyText"
        /\ ThrowingMethods = 1..Len(Methods) =>
              /\ ex_result.status = "Failure"
              /\ ex_result.errorDetail = ex_out[Methods[Len(Methods)]].msg

\* C10 (amended): as claimed, except that EmptyText is the result only when,
\* besides, the remote method did not find its dependency or credential
\* missing; when it did, the result is Failure with that condition's
\* description, also if an earlier method returned (blank) without throwing.
C10_ExtractChain ==
    ex_pc = "done" =>
        /\ ex_tried = SubSeq(Methods, 1, Len(ex_tried))
        /\ YieldingMethods # {} =>
              /\ ex_result.status = "Success"
              /\ ex_result.methodUsed = Methods[First(YieldingMethods)]
              /\ Len(ex_tried) = First(YieldingMethods)
        /\ (/\ YieldingMethods = {}
            /\ ThrowingMethods # 1..Len(Methods)
            /\ MisconfiguredMethods = {}) =>
              /\ ex_result.status = "EmptyText"
              /\ Len(ex_tried) = Len(Methods)
        /\ (YieldingMethods = {} /\ MisconfiguredMethods # {}) =>
              /\ ex_result.status = "Failure"
              /\ ex_result.errorDetail = ex_out[Methods[First(MisconfiguredMethods)]].msg
        /\ ThrowingMethods = 1..Len(Methods) =>
              /\ ex_result.status = "Failure"
              /\ ex_result.errorDetail = ex_out[Methods[Len(Methods)]].msg

\* C10 witness: Structural returned whitespace, LocalOCR threw, CloudOCR
\* returned nothing: all three were tried and the result is EmptyText.
C10_Witness ==
    /\ ex_pc = "done"
    /\ ex_out["Structural"] = Returns(<<" ">>)
    /\ ex_out["LocalOCR"] = Throws("LocalOCR")
    /\ ex_out["CloudOCR"] = Returns(<<>>)
    /\ ex_tried = Methods
    /\ ex_result = EmptyText

(* ------------------------------- C11 ---------------------------------- *)

\* C11: configuration errors are escalated before any work item is touched.
\* A run that read an empty API key ends at once, with no extract, transform
\* or append call and no document; when genai.configure or the model's
\* construction fails, extract_pdf_content raises with no page file looked
\* at, no request sent and nothing yielded.
C11_ConfigErrorsEscalated ==
    /\ (pc # "idle" /\ api_key_input = Str(<<>>)) =>
          /\ pc = "done"
          /\ calls = <<>>
          /\ ~master_document.present
    /\ (pg_config = "failed" \/ pg_model = "failed") =>
          /\ pg_pc = "raised"
          /\ pg_log = <<>>
          /\ pg_yields = <<>>
    /\ pg_pc = "raised" => (pg_config = "failed" \/ pg_model = "failed")
    /\ pg_log # <<>> => (pg_config = "ok" /\ pg_model = "ok")

\* C11 witness: a full list was processed with the API key field empty, and
\* the run is over without a single backend call.
C11_Witness ==
    /\ pc = "done"
    /\ Len(ordered_files) = MaxFiles
    /\ api_key_input = Str(<<>>)
    /\ rules_prompt_input = Str(<<"w">>)
    /\ calls = <<>>
    /\ ~processing_started

(* ------------------------------- C12 ---------------------------------- *)

\* Where a call stands in the file-at-a-time order: files in list order, and
\* for one file extract, then transform, then append; the save call (whose
\* file field is total_files) comes after every file.
StageRank(op) ==
    CASE op = "extract" -> 1
      [] op = "transform" -> 2
      [] op = "append" -> 3
      [] op = "save" -> 4

OrderKey(c) == 4 * c.file + StageRank(c.op)

\* C12: processing is file-at-a-time.  The backend calls of a run are strictly
\* ordered by (file, stage): a file's extraction precedes its transform, which
\* precedes its append, and no call of a later file precedes a call of an
\* earlier one; a transform or append is preceded by the same file's
\* extraction; the document is saved at most once, with nothing after it, and
\* a batch that ended saved exactly once, after every file was extracted.
C12_FileAtATime ==
    /\ \A k \in 1..Len(calls), l \in 1..Len(calls) :
          k < l => OrderKey(calls[k]) < OrderKey(calls[l])
    /\ \A k \in 1..Len(calls) :
          calls[k].op \in {"transform", "append"} =>
              \E e \in CallsOn("extract", calls[k].file) : e < k
    /\ \A k \in CallsOf("save") : k = Len(calls) /\ pc = "done"
    /\ BatchEnded =>
          /\ Cardinality(CallsOf("save")) = 1
          /\ \A f \in 0..(Len(ordered_files) - 1) : CallsOn("extract", f) # {}

\* C12 witness: two files went through all three stages, then the document
\* was saved: seven calls, the save last.
C12_Witness ==
    /\ BatchEnded
    /\ Len(ordered_files) = 2
    /\ Len(calls) = 7
    /\ [k \in 1..7 |-> calls[k].op] =
          <<"extract", "transform", "append", "extract", "transform", "append", "save">>
    /\ [k \in 1..7 |-> calls[k].file] = <<0, 0, 0, 1, 1, 1, 2>>

(* ------------------------------- C13 ---------------------------------- *)

\* Positions in the generator's log of one kind of event on one page.
EventsOn(ev, page) ==
    { k \in 1..Len(pg_log) : pg_log[k].ev = ev /\ pg_log[k].page = page }

\* The pages the generator skipped before any request: image missing or
\* unreadable.
SkippedPages ==
    { pg_yields[k].at : k \in { n \in 1..Len(pg_yields) :
          /\ "error" \in DOMAIN pg_yields[n].dict
          /\ pg_yields[n].dict.error \in {"Image file not found", "File upload/read failed"} } }

\* The pages whose request failed.
FailedRequestPages ==
    { pg_yields[k].at : k \in { n \in 1..Len(pg_yields) :
          /\ "error" \in DOMAIN pg_yields[n].dict
          /\ pg_yields[n].dict.error = "Failed to process page" } }

\* C13: the remote service is invoked at most once per work item: at most one
\* transform call per file of a run, whatever it returned, and at most one
\* request per page of extract_pdf_content: exactly one for a page whose
\* request failed, none for a page whose image is missing or unreadable.
C13_NoRetry ==
    /\ \A f \in 0..MaxFiles : Cardinality(CallsOn("transform", f)) <= 1
    /\ \A p \in 1..(MaxPage + 1) : Cardinality(EventsOn("request", p)) <= 1
    /\ \A p \in FailedRequestPages : Cardinality(EventsOn("request", p)) = 1
    /\ \A p \in SkippedPages : EventsOn("request", p) = {}

\* C13 witness: the request for page 1 failed and the image of page 2 was
\* missing; the generator ended after a single request.
C13_Witness ==
    /\ pg_pc = "done"
    /\ pg_start = 1
    /\ pg_end = 2
    /\ pg_yields = <<Yield(1, ErrorDict("Failed to process page", 1)),
                     Yield(2, ErrorDict("Image file not found", 2))>>
    /\ Cardinality({ k \in 1..Len(pg_log) : pg_log[k].ev = "request" }) = 1

(* ------------------------------- C14 ---------------------------------- *)

IsErrorDict(d) == "error" \in DOMAIN d

\* C14: extract_pdf_content yields one dict per page, in ascending page
\* order, and then ends: the k-th yield belongs to page start_page + k - 1,
\* a generator that ended yielded for every page of [start_page, end_page],
\* a failed page's dict carries "error" and "page" = that page, and the
\* generator never raises once it has reached the pages.
C14_OneDictPerPage ==
    /\ \A k \in 1..Len(pg_yields) :
          /\ pg_yields[k].at = pg_start + k - 1
          /\ pg_yields[k].at <= pg_end
          /\ IsErrorDict(pg_yields[k].dict) =>
                /\ "page" \in DOMAIN pg_yields[k].dict
                /\ pg_yields[k].dict.page = pg_yields[k].at
    /\ pg_pc = "done" =>
          Len(pg_yields) = IF pg_start <= pg_end THEN pg_end - pg_start + 1 ELSE 0
    /\ pg_pc = "raised" => (pg_yields = <<>> /\ pg_log = <<>>)
    /\ pg_pc \in {"page", "read", "request", "sleep"} =>
          /\ pg_start <= pg_i
          /\ pg_i <= pg_end + 1 \/ pg_i = pg_start

\* C14 witness: page 1 came back without a JSON block, page 2 parsed; the
\* generator ended with two yields, the first an error dict for page 1.
C14_Witness ==
    /\ pg_pc = "done"
    /\ pg_start = 1
    /\ pg_end = 2
    /\ pg_yields = <<Yield(1, ErrorDictWithRaw("No JSON block found in response", 1)),
                     Yield(2, ResultJson)>>

(* ------------------------------- C15 ---------------------------------- *)

NamesDistinct(files) ==
    \A k \in 1..Len(files), l \in 1..Len(files) : k # l => files[k] # files[l]

Occurs(x, seq) == \E k \in 1..Len(seq) : seq[k] = x

FirstIndex(x, seq) == CHOOSE k \in 1..Len(seq) : seq[k] = x /\ \A j \in 1..(k - 1) : seq[j] # x

\* What an upload may do to the list: keep the old entries where they are and
\* add, at the end, the uploaded names that were not in the list, each once,
\* in the order of their first occurrence in the upload.
AppendsUnseen(old, new, uploads) ==
    /\ Len(new) >= Len(old)
    /\ SubSeq(new, 1, Len(old)) = old
    /\ \A k \in (Len(old) + 1)..Len(new) : Occurs(new[k], uploads) /\ ~Occurs(new[k], old)
    /\ \A k \in 1..Len(uploads) : Occurs(uploads[k], new)
    /\ \A k \in (Len(old) + 1)..Len(new), l \in (Len(old) + 1)..Len(new) :
          k < l => FirstIndex(new[k], uploads) < FirstIndex(new[l], uploads)

\* C15: the names in ordered_files are pairwise distinct after any sequence
\* of uploads, moves, removals and clears, and a step that ran handle_uploads
\* appended exactly the unseen names of the upload, at the end and in upload
\* order, leaving the existing entries and their order unchanged.
C15_NoDuplicateNames ==
    /\ [] NamesDistinct(ordered_files)
    /\ [][ last_call'.op = "handle_uploads" =>
              AppendsUnseen(ordered_files, ordered_files', last_call'.pdf_uploader) ]_vars

\* C15 witness: b.pdf and a.pdf were uploaded to a list that held a.pdf:
\* only b.pdf was appended.
C15_Witness ==
    /\ last_call = [op |-> "handle_uploads", pdf_uploader |-> <<"b.pdf", "a.pdf">>]
    /\ ordered_files = <<"a.pdf", "b.pdf">>

(* ------------------------------- C16 ---------------------------------- *)

InRange(index, files) == 0 <= index /\ index < Len(files)

\* new is old with the entries at (0-based) a and b exchanged, all others in
\* place.
SwappedAt(old, new, a, b) ==
    /\ Len(new) = Len(old)
    /\ new[a + 1] = old[b + 1]
    /\ new[b + 1] = old[a + 1]
    /\ \A k \in 1..Len(old) : (k # a + 1 /\ k # b + 1) => new[k] = old[k]

RemovedAt(old, new, index) ==
    /\ Len(new) = Len(old) - 1
    /\ \A k \in 1..Len(new) : new[k] = IF k <= index THEN old[k] ELSE old[k + 1]

DownloadOffered == merged_doc_buffer.present /\ ~processing_started

\* C18: stale results are never offered.  Whenever the download is offered,
\* the buffer was stored by a run over the list as it is now, in its current
\* order; and every step that changes ordered_files leaves merged_doc_buffer
\* None, files_processed_count 0 and processing_complete False.
C18_NoStaleResults ==
    /\ [] (DownloadOffered => built_from = ordered_files)
    /\ [][ ordered_files' # ordered_files =>
              /\ ~merged_doc_buffer'.present
              /\ files_processed_count' = 0
              /\ ~processing_complete' ]_vars

\* C18 witness: the results of a run over two files are on offer, and they
\* survived an upload that changed nothing (both names were in the list).
C18_Witness ==
    /\ pc = "idle"
    /\ DownloadOffered
    /\ Len(ordered_files) = 2
    /\ built_from = ordered_files
    /\ last_call.op = "handle_uploads"
    /\ files_processed_count > 0

(* ------------------------------- C19 ---------------------------------- *)

\* C19: every press of a process button ends with processing_started False:
\* whenever the script run has reached its end, or no run is going on, the
\* flag is off, whichever path the run took.
C19_StartedEndsFalse ==
    pc \in {"done", "idle"} => ~processing_started

\* C19 witness: a run with an API key and a blank rules field got past the
\* checks, failed to set up the document styles and ended with the flag off.
C19_Witness ==
    /\ pc = "done"
    /\ api_key_input = Str(<<"w">>)
    /\ rules_prompt_input = Str(<<" ">>)
    /\ current_rules = Str(default_rules)
    /\ ~master_document.present
    /\ ~processing_complete
    /\ ~processing_started

(* ------------------------------- C20 ---------------------------------- *)

Blank(text) == Strip(text) = <<>>

\* C20: the rules given to the transform are defined and not blank.  A run
\* that read an API key has current_rules bound: to the rules text when that
\* is not blank after trimming, to the default rules otherwise; every
\* transform call is made with such rules; and a press with a key and a
\* blank rules field goes on to the document set-up, it does not end the run.
C20_RulesNeverBlank ==
    /\ [] ((pc # "idle" /\ api_key_input # Str(<<>>)) =>
              /\ current_rules.tag = "str"
              /\ ~Blank(current_rules.val)
              /\ current_rules = IF Blank(rules_prompt_input.val)
                                 THEN Str(default_rules)
                                 ELSE rules_prompt_input)
    /\ [] ((pc = "transform" \/ CallsOf("transform") # {}) =>
              (current_rules.tag = "str" /\ ~Blank(current_rules.val)))
    /\ [][ (pc = "idle" /\ pc' # "idle" /\ api_key_input' # Str(<<>>)
               /\ Blank(rules_prompt_input'.val)) => pc' = "init_doc" ]_vars

\* C20 witness: the rules field held only a space, and the transform of the
\* first file was called with the default rules.
C20_Witness ==
    /\ rules_prompt_input = Str(<<" ">>)
    /\ current_rules = Str(default_rules)
    /\ CallsOn("transform", 0) # {}
====
